---- MODULE Spec2Model ----
(***************************************************************************)
(* A model of kukatransformations: the pose algebra of                     *)
(* src/kukatransformations.py and the pose list of src/frontend.py.        *)
(*                                                                         *)
(* Numbers.  A Python float is modelled as an exact fixed-point integer:   *)
(* the integer v stands for the real v / Unit, Unit = 2000, so every text  *)
(* with at most three decimals is exact and so is the halving in           *)
(* calculate_camera_position.  Negative zero is identified with zero (the  *)
(* two compare equal in Python).  Angles are kept on the grid of           *)
(* multiples of 90 degrees, where cos and sin are exactly -1, 0 or 1; the  *)
(* rounding noise of the floating-point build (about 1e-16) is far below   *)
(* the tolerances and the 1e-6 threshold of the code and is left out.      *)
(* A call either returns a value, [exc |-> "none", value |-> v], or        *)
(* raises, [exc |-> "ValueError"].                                         *)
(***************************************************************************)
EXTENDS Integers, Sequences, FiniteSets, TLC

VARIABLES
    poses,            \* the ordered list of (pose, invert) entries
    chained_poses,    \* outcome of chain_poses(poses)
    scene_size,       \* outcome of calculate_scene_size(chained_poses)
    extents,          \* outcome of calculate_extents(chained_poses)
    extracted,        \* extract_pose_parameters of every chained transform
    camera,           \* outcome of calculate_camera_position(*extents)
    pose_list,        \* frontend: the texts of the list widget's items
    result_label,     \* frontend: the pose text shown after "Resulting Pose: "
    last_scene_size,  \* frontend: self.last_scene_size
    last,             \* frontend: the handler that ran last and how it ended
    calls             \* frontend: the number of handlers run so far

vars == <<poses, chained_poses, scene_size, extents, extracted, camera,
          pose_list, result_label, last_scene_size, last, calls>>

coreVars == <<chained_poses, scene_size, extents, extracted, camera>>
frontVars == <<pose_list, result_label, last_scene_size, last, calls>>

----------------------------------------------------------------------------
(* Outcomes of a call *)

Ok(v) == [exc |-> "none", value |-> v]
Raise(e) == [exc |-> e]
Unset == [exc |-> "unset"]

----------------------------------------------------------------------------
(* Fixed-point numbers *)

Unit == 2 * 1000
Hundredth == Unit \div 100
QuarterTurn == 90 * Unit

Abs(n) == IF n < 0 THEN -n ELSE n

RECURSIVE isqrt(_)
\* np.sqrt / np.linalg.norm on an integer: the floor of the square root
isqrt(n) ==
    IF n < 2 THEN n
    ELSE LET s == 2 * isqrt(n \div 4)
         IN  IF (s + 1) * (s + 1) <= n THEN s + 1 ELSE s

\* np.radians on the grid: degrees (fixed-point) to a count of quarter turns
MaxTurns == 8
radians(d) == CHOOSE q \in -MaxTurns..MaxTurns : q * QuarterTurn = d
\* np.degrees on the grid: a count of quarter turns to degrees (fixed-point)
degrees(q) == q * QuarterTurn

cos(q) == CASE q % 4 = 0 -> 1
            [] q % 4 = 1 -> 0
            [] q % 4 = 2 -> -1
            [] q % 4 = 3 -> 0

sin(q) == CASE q % 4 = 0 -> 0
            [] q % 4 = 1 -> 1
            [] q % 4 = 2 -> 0
            [] q % 4 = 3 -> -1

\* np.arctan2(y, x) for a direction on an axis, in quarter turns, in (-2, 2]
arctan2(y, x) ==
    CASE y = 0 /\ x >= 0 -> 0
      [] y > 0 /\ x = 0 -> 1
      [] y = 0 /\ x < 0 -> 2
      [] y < 0 /\ x = 0 -> -1

----------------------------------------------------------------------------
(* Matrices: a matrix is a tuple of rows; At keeps the source's 0-based    *)
(* indices T[i, j].                                                        *)

At(T, i, j) == T[i + 1][j + 1]

\* the n x m array with entry e[i][j]: a tuple of tuples, evaluated once
Array(e, n, m) ==
    SubSeq([i \in 1..n |-> SubSeq([j \in 1..m |-> e[i][j]], 1, m)], 1, n)

eye(n) == Array([i \in 1..n |-> [j \in 1..n |-> IF i = j THEN 1 ELSE 0]], n, n)

RECURSIVE DotFrom(_, _, _, _, _)
DotFrom(A, B, i, j, k) ==
    IF k = 0 THEN 0 ELSE DotFrom(A, B, i, j, k - 1) + A[i][k] * B[k][j]

\* the @ operator on square matrices
MatMul(A, B) ==
    Array([i \in 1..Len(A) |-> [j \in 1..Len(A) |-> DotFrom(A, B, i, j, Len(A))]],
          Len(A), Len(A))

\* M without row i and column j
Minor(M, i, j) ==
    Array([r \in 1..(Len(M) - 1) |->
              [c \in 1..(Len(M) - 1) |->
                  M[IF r < i THEN r ELSE r + 1][IF c < j THEN c ELSE c + 1]]],
          Len(M) - 1, Len(M) - 1)

Sign(k) == IF k % 2 = 0 THEN 1 ELSE -1

RECURSIVE det(_)
RECURSIVE detFrom(_, _)
detFrom(M, j) ==
    IF j = 0 THEN 0
    ELSE detFrom(M, j - 1) + Sign(1 + j) * M[1][j] * det(Minor(M, 1, j))
det(M) == IF Len(M) = 1 THEN M[1][1] ELSE detFrom(M, Len(M))

\* np.linalg.inv: the inverse, adjugate over determinant (exact for the
\* determinant 1 of a rotation-plus-translation matrix)
inv(T) ==
    LET d == det(T)
    IN  Array([i \in 1..Len(T) |->
                  [j \in 1..Len(T) |->
                      (Sign(i + j) * det(Minor(T, j, i))) \div d]],
              Len(T), Len(T))

----------------------------------------------------------------------------
(* TransformMath *)

create_transformation_matrix(x, y, z, a0, b0, c0) ==
    LET a == radians(a0)
        b == radians(b0)
        c == radians(c0)
        Rz == << <<cos(a), -sin(a), 0>>,
                 <<sin(a),  cos(a), 0>>,
                 <<0, 0, 1>> >>
        Ry == << <<cos(b), 0, sin(b)>>,
                 <<0, 1, 0>>,
                 <<-sin(b), 0, cos(b)>> >>
        Rx == << <<1, 0, 0>>,
                 <<0, cos(c), -sin(c)>>,
                 <<0, sin(c),  cos(c)>> >>
        R == MatMul(MatMul(Rz, Ry), Rx)
        t == <<x, y, z>>
    IN  Array([i \in 1..4 |->
                  [j \in 1..4 |->
                      IF i <= 3 /\ j <= 3 THEN R[i][j]
                      ELSE IF i <= 3 THEN t[i]
                      ELSE eye(4)[i][j]]],
              4, 4)

\* a faulty variant: the arguments of the first arctan2 exchanged
extract_pose_parameters_swapped(T) ==
    LET sy == isqrt(At(T, 0, 0) * At(T, 0, 0) + At(T, 1, 0) * At(T, 1, 0))
        singular == sy * 1000000 < 1
        a == IF ~singular THEN arctan2(At(T, 0, 0), At(T, 1, 0))
             ELSE arctan2(-At(T, 1, 2), At(T, 1, 1))
        b == arctan2(-At(T, 2, 0), sy)
        c == IF ~singular THEN arctan2(At(T, 2, 1), At(T, 2, 2))
             ELSE 0
    IN  <<At(T, 0, 3), At(T, 1, 3), At(T, 2, 3), degrees(a), degrees(b), degrees(c)>>

\* the denominator of the threshold 1e-6 on sy
SingularPerUnit == 1000000

extract_pose_parameters(T) ==
    LET x == At(T, 0, 3)
        y == At(T, 1, 3)
        z == At(T, 2, 3)
        sy == isqrt(At(T, 0, 0) * At(T, 0, 0) + At(T, 1, 0) * At(T, 1, 0))
        singular == sy * SingularPerUnit < 1
        a == IF ~singular THEN arctan2(At(T, 1, 0), At(T, 0, 0))
             ELSE arctan2(-At(T, 1, 2), At(T, 1, 1))
        b == arctan2(-At(T, 2, 0), sy)
        c == IF ~singular THEN arctan2(At(T, 2, 1), At(T, 2, 2))
             ELSE 0
    IN  <<x, y, z, degrees(a), degrees(b), degrees(c)>>

\* a faulty variant: the rotation transposed, the translation kept
invert_transformation_transposed(T) ==
    Array([i \in 1..4 |->
              [j \in 1..4 |-> IF i <= 3 /\ j <= 3 THEN T[j][i] ELSE T[i][j]]],
          4, 4)

invert_transformation(T) == inv(T)

----------------------------------------------------------------------------
(* PoseCodec.  A text is a sequence of one-character strings.              *)

DigitChars == <<"0", "1", "2", "3", "4", "5", "6", "7", "8", "9">>
DigitValue(ch) == CHOOSE d \in 0..9 : DigitChars[d + 1] = ch

\* the character class [-\d.] of the pattern
IsTokenChar(ch) == ch \in {"-", ".", "0", "1", "2", "3", "4", "5", "6", "7", "8", "9"}
IsDigit(ch) == ch \in {"0", "1", "2", "3", "4", "5", "6", "7", "8", "9"}

RECURSIVE Digits(_)
\* the decimal digits of a natural number
Digits(n) ==
    IF n < 10 THEN <<DigitChars[n + 1]>>
    ELSE Digits(n \div 10) \o <<DigitChars[(n % 10) + 1]>>

\* a faulty variant: "%.1f", one decimal only (the rest cut off)
FormatFloat1(v) ==
    LET h == Abs(v) \div (10 * Hundredth)
    IN  (IF v < 0 THEN <<"-">> ELSE <<>>)
        \o Digits(h \div 10) \o <<".">> \o <<DigitChars[(h % 10) + 1]>>

\* "%.2f" % v: round to the nearest hundredth (a tie, which a binary float
\* hardly ever holds exactly, to the even one), keep the sign of v
FormatFloat2(v) ==
    LET m == Abs(v)
        q == m \div Hundredth
        r == m % Hundredth
        h == IF 2 * r > Hundredth \/ (2 * r = Hundredth /\ q % 2 = 1)
             THEN q + 1 ELSE q
        frac == h % 100
    IN  (IF v < 0 THEN <<"-">> ELSE <<>>)
        \o Digits(h \div 100) \o <<".">>
        \o <<DigitChars[(frac \div 10) + 1], DigitChars[(frac % 10) + 1]>>

\* "{X %.2f, Y %.2f, Z %.2f, A %.2f, B %.2f, C %.2f}" % pose
FormatPose(pose) ==
    <<"{", "X", " ">> \o FormatFloat2(pose[1])
    \o <<",", " ", "Y", " ">> \o FormatFloat2(pose[2])
    \o <<",", " ", "Z", " ">> \o FormatFloat2(pose[3])
    \o <<",", " ", "A", " ">> \o FormatFloat2(pose[4])
    \o <<",", " ", "B", " ">> \o FormatFloat2(pose[5])
    \o <<",", " ", "C", " ">> \o FormatFloat2(pose[6])
    \o <<"}">>

RECURSIVE DigitsValue(_)
\* the number a run of digits spells (0 for the empty run)
DigitsValue(ds) ==
    IF ds = <<>> THEN 0
    ELSE 10 * DigitsValue(SubSeq(ds, 1, Len(ds) - 1)) + DigitValue(ds[Len(ds)])

\* the first position >= i of s that holds ch, or Len(s) + 1
RECURSIVE Find(_, _, _)
Find(s, ch, i) ==
    IF i > Len(s) THEN Len(s) + 1
    ELSE IF s[i] = ch THEN i
    ELSE Find(s, ch, i + 1)

AllDigits(ds) == \A k \in 1..Len(ds) : IsDigit(ds[k])

\* float(tok) for a token of the class [-\d.]: an optional sign, digits with
\* at most one point and at least one digit; anything else is a ValueError
float(tok) ==
    LET neg == tok # <<>> /\ tok[1] = "-"
        body == IF neg THEN Tail(tok) ELSE tok
        dot == Find(body, ".", 1)
        whole == SubSeq(body, 1, dot - 1)
        frac == SubSeq(body, dot + 1, Len(body))
        kept == SubSeq(frac \o <<"0", "0", "0">>, 1, 3)  \* thousandths
        mag == DigitsValue(whole) * Unit
               + DigitsValue(kept) * (Unit \div 1000)
    IN  IF AllDigits(whole) /\ AllDigits(frac) /\ Len(whole) + Len(frac) > 0
        THEN Ok(IF neg THEN -mag ELSE mag)
        ELSE Raise("ValueError")

\* whether s holds lit at position i
StartsWith(s, i, lit) ==
    /\ i + Len(lit) - 1 <= Len(s)
    /\ \A k \in 1..Len(lit) : s[i + k - 1] = lit[k]

\* the end (exclusive) of the longest run of token characters from i
RECURSIVE RunEnd(_, _)
RunEnd(s, i) ==
    IF i <= Len(s) /\ IsTokenChar(s[i]) THEN RunEnd(s, i + 1) ELSE i

\* the literals of the pattern before each group, and the closing brace
PatternLiterals ==
    << <<"{", "X", " ">>, <<",", " ", "Y", " ">>, <<",", " ", "Z", " ">>,
       <<",", " ", "A", " ">>, <<",", " ", "B", " ">>, <<",", " ", "C", " ">> >>

\* re.match(pattern, s): the six groups, or <<>> for None.  A group is the
\* longest run of token characters: the literal after it starts with a
\* character outside the class, so no shorter run can match.
RECURSIVE MatchFrom(_, _, _, _)
MatchFrom(s, i, k, groups) ==
    IF k > 6 THEN (IF StartsWith(s, i, <<"}">>) THEN groups ELSE <<>>)
    ELSE IF ~StartsWith(s, i, PatternLiterals[k]) THEN <<>>
    ELSE LET from == i + Len(PatternLiterals[k])
             to == RunEnd(s, from)
         IN  IF to = from THEN <<>>
             ELSE MatchFrom(s, to, k + 1, Append(groups, SubSeq(s, from, to - 1)))

re_match(s) == MatchFrom(s, 1, 1, <<>>)

parse_pose_string(pose_str) ==
    LET match == re_match(pose_str)
        values == [k \in 1..6 |-> float(match[k])]
    IN  IF match # <<>>
        THEN IF \A k \in 1..6 : values[k].exc = "none"
             THEN Ok([k \in 1..6 |-> values[k].value])
             ELSE Raise("ValueError")
        ELSE Raise("ValueError")

----------------------------------------------------------------------------
(* ChainBuilder.  An entry is <<pose, invert>>; pose is a 6-tuple of       *)
(* numbers or, wrapped as [str |-> text], a text still to be parsed.       *)

Str(text) == [str |-> text]
isinstance_str(pose) == DOMAIN pose = {"str"}

\* a faulty variant: the product taken in the other order
chain_step_reversed(current_T, T) == MatMul(T, current_T)

\* current_T = current_T @ T
chain_step(current_T, T) == MatMul(current_T, T)

\* T of one entry: the pose's matrix, inverted when the flag is set
entry_transform(pose, invert) ==
    LET T == create_transformation_matrix(pose[1], pose[2], pose[3],
                                          pose[4], pose[5], pose[6])
    IN  IF invert THEN invert_transformation(T) ELSE T

\* the for loop of chain_poses from entry k on
RECURSIVE chain_loop(_, _, _, _)
chain_loop(entries, k, current_T, chained) ==
    IF k > Len(entries) THEN Ok(chained)
    ELSE LET pose0 == entries[k][1]
             invert == entries[k][2]
             parsed == IF isinstance_str(pose0)
                       THEN parse_pose_string(pose0.str)
                       ELSE Ok(pose0)
         IN  IF parsed.exc # "none" THEN Raise(parsed.exc)
             ELSE LET T == entry_transform(parsed.value, invert)
                      next_T == chain_step(current_T, T)
                  IN  chain_loop(entries, k + 1, next_T,
                                 Append(chained, <<next_T, invert>>))

chain_poses(entries) == chain_loop(entries, 1, eye(4), <<>>)

----------------------------------------------------------------------------
(* SceneMetrics *)

MinOf(S) == CHOOSE m \in S : \A v \in S : m <= v
MaxOf(S) == CHOOSE m \in S : \A v \in S : m >= v

\* np.vstack([T[:3, 3] for T, _ in chained]): raises on an empty list
vstack_points(chained) ==
    IF chained = <<>> THEN Raise("ValueError")
    ELSE Ok([k \in 1..Len(chained) |->
                [i \in 1..3 |-> At(chained[k][1], i - 1, 3)]])

\* a faulty variant: the first point taken for the minimum
np_first(all_points) == [i \in 1..3 |-> all_points[1][i]]

\* np.min(all_points, axis=0) and np.max(all_points, axis=0)
np_min(all_points) ==
    [i \in 1..3 |-> MinOf({all_points[k][i] : k \in 1..Len(all_points)})]
np_max(all_points) ==
    [i \in 1..3 |-> MaxOf({all_points[k][i] : k \in 1..Len(all_points)})]

calculate_extents(chained) ==
    LET all_points == vstack_points(chained)
    IN  IF all_points.exc # "none" THEN Raise(all_points.exc)
        ELSE Ok(<<np_min(all_points.value), np_max(all_points.value)>>)

\* np.linalg.norm of a 3-vector
norm(v) == isqrt(v[1] * v[1] + v[2] * v[2] + v[3] * v[3])

calculate_scene_size(chained) ==
    LET all_points == vstack_points(chained)
    IN  IF all_points.exc # "none" THEN Raise(all_points.exc)
        ELSE LET min_point == np_min(all_points.value)
                 max_point == np_max(all_points.value)
             IN  Ok(norm([i \in 1..3 |-> max_point[i] - min_point[i]]))

\* a faulty variant: the camera at one max_range, not two
calculate_camera_position_near(min_point, max_point) ==
    LET center == [i \in 1..3 |-> (min_point[i] + max_point[i]) \div 2]
        max_range == MaxOf({max_point[i] - min_point[i] : i \in 1..3})
    IN  <<[i \in 1..3 |-> center[i] + max_range], center>>

\* the multiplier of max_range
CameraMultiplier == 2

calculate_camera_position(min_point, max_point) ==
    LET center == [i \in 1..3 |-> (min_point[i] + max_point[i]) \div 2]
        max_range == MaxOf({max_point[i] - min_point[i] : i \in 1..3})
        camera_distance == max_range * CameraMultiplier
        camera_position == [i \in 1..3 |-> center[i] + 1 * camera_distance]
    IN  <<camera_position, center>>

----------------------------------------------------------------------------
(* The library called on a list of entries: chain_poses first, then the    *)
(* functions that read the chain, each once, in any order.                 *)

\* thousandths to the fixed-point unit
Milli(p) == [k \in 1..Len(p) |-> p[k] * (Unit \div 1000)]

PoseA == Milli(<<1500, -2000, 250, 90000, 0, 0>>)
PoseB == Milli(<<0, 3000, -1000, 0, 90000, 0>>)
PoseC == Milli(<<2000, 1000, -500, 180000, -90000, 90000>>)

ChainPoseSet == {PoseA, PoseB, PoseC}

\* the longest list of entries chained
MaxChain == 3

ChainInputs ==
    UNION {[1..n -> ChainPoseSet \X BOOLEAN] : n \in 0..MaxChain}

AngleASet == {-180000, -90000, 0, 90000, 180000, 270000}
AngleBSet == {-90000, 0, 90000, 180000}
AngleCSet == {-90000, 0, 90000, 180000}

\* one pose, not inverted, over a wide range of angles
SingleInputs ==
    {<< <<Milli(<<1500, -2000, 250, a, b, c>>), FALSE>> >> :
        a \in AngleASet, b \in AngleBSet, c \in AngleCSet}

\* entries given as text, one well formed and one without its opening brace
TextInputs ==
    { << <<Str(FormatPose(PoseA)), FALSE>>, <<PoseB, TRUE>> >>,
      << <<PoseB, FALSE>>, <<Str(Tail(FormatPose(PoseA))), TRUE>> >> }

\* a pose and then the same pose inverted
InversePairInputs ==
    {<< <<Milli(<<1500, -2000, 250, a, b, c>>), FALSE>>,
        <<Milli(<<1500, -2000, 250, a, b, c>>), TRUE>> >> :
        a \in AngleASet, b \in AngleBSet, c \in AngleCSet}

CoreInputs == ChainInputs \cup SingleInputs \cup InversePairInputs \cup TextInputs

NoLast == [op |-> "none", parse_error |-> FALSE, raised |-> "none"]

InitCore ==
    /\ poses \in CoreInputs
    /\ chained_poses = Unset
    /\ scene_size = Unset
    /\ extents = Unset
    /\ extracted = Unset
    /\ camera = Unset
    /\ pose_list = <<>>
    /\ result_label = <<>>
    /\ last_scene_size = Unset
    /\ last = NoLast
    /\ calls = 0

CallChainPoses ==
    /\ chained_poses = Unset
    /\ chained_poses' = chain_poses(poses)
    /\ UNCHANGED <<poses, scene_size, extents, extracted, camera, frontVars>>

CallCalculateSceneSize ==
    /\ chained_poses.exc = "none"
    /\ scene_size = Unset
    /\ scene_size' = calculate_scene_size(chained_poses.value)
    /\ UNCHANGED <<poses, chained_poses, extents, extracted, camera, frontVars>>

CallCalculateExtents ==
    /\ chained_poses.exc = "none"
    /\ extents = Unset
    /\ extents' = calculate_extents(chained_poses.value)
    /\ UNCHANGED <<poses, chained_poses, scene_size, extracted, camera, frontVars>>

CallExtractPoseParameters ==
    /\ chained_poses.exc = "none"
    /\ extracted = Unset
    /\ extracted' = Ok([k \in 1..Len(chained_poses.value) |->
                          extract_pose_parameters(chained_poses.value[k][1])])
    /\ UNCHANGED <<poses, chained_poses, scene_size, extents, camera, frontVars>>

CallCalculateCameraPosition ==
    /\ extents.exc = "none"
    /\ camera = Unset
    /\ camera' = Ok(calculate_camera_position(extents.value[1], extents.value[2]))
    /\ UNCHANGED <<poses, chained_poses, scene_size, extents, extracted, frontVars>>

NextCore ==
    \/ CallChainPoses
    \/ CallCalculateSceneSize
    \/ CallCalculateExtents
    \/ CallExtractPoseParameters
    \/ CallCalculateCameraPosition

SpecCore == InitCore /\ [][NextCore]_vars

----------------------------------------------------------------------------
(* The frontend, KUKAPoseVisualizer.  A handler is one action; what it     *)
(* raises is recorded in last.raised and the object stays as the handler   *)
(* left it, open to the next call.  The selected row and the texts typed   *)
(* into the input line and the edit dialog are inputs of the handlers.     *)
(* The plotter and the clipboard are left out.                             *)

InvertedMark == <<"(", "I", "n", "v", "e", "r", "t", "e", "d", ")">>

\* text.partition('}')
partition(text) ==
    LET at == Find(text, "}", 1)
    IN  IF at <= Len(text)
        THEN <<SubSeq(text, 1, at - 1), <<"}">>, SubSeq(text, at + 1, Len(text))>>
        ELSE <<text, <<>>, <<>>>>

\* sub in text
Contains(text, sub) == \E i \in 1..(Len(text) + 1) : StartsWith(text, i, sub)

\* the text of a list item: f"{pose_str} {'(Inverted)' if inverted else ''}"
ItemText(entry) ==
    FormatPose(entry[1]) \o <<" ">> \o (IF entry[2] THEN InvertedMark ELSE <<>>)

\* chained_poses, resulting_pose = <list>: a list of two unpacks, any other
\* length is a ValueError
unpack_two(list) == IF Len(list) = 2 THEN Ok(list) ELSE Raise("ValueError")

\* T[:3, 3] needs an array: a 4 x 4 matrix has four rows, a (T, invert)
\* tuple has two items and indexing it by a tuple is a TypeError
is_array(v) == Len(v) = 4
call_extract_pose_parameters(v) ==
    IF is_array(v) THEN Ok(extract_pose_parameters(v)) ELSE Raise("TypeError")

\* what visualize_poses leaves: the exception it raises, the label and
\* self.last_scene_size
VisualizeResult(raised, label, size) ==
    [raised |-> raised, result_label |-> label, last_scene_size |-> size]

\* the end of visualize_poses: the label is set, the scene is sized when the
\* zoom is updated, and the extents place the camera
show_scene(new_label, scene, box, size, update_zoom) ==
    IF scene.exc # "none" THEN VisualizeResult(scene.exc, new_label, size)
    ELSE VisualizeResult(box.exc, new_label, IF update_zoom THEN scene ELSE size)

\* visualize_poses from the extracted parameters on
show_params(params, chained, label, size, update_zoom) ==
    IF params.exc # "none" THEN VisualizeResult(params.exc, label, size)
    ELSE show_scene(FormatPose(params.value),
                    IF update_zoom THEN calculate_scene_size(chained) ELSE Ok(0),
                    calculate_extents(chained), size, update_zoom)

\* visualize_poses from the unpacked pair on: resulting_pose is its second
\* item, chained_poses its first
show_unpacked(two, label, size, update_zoom) ==
    IF two.exc # "none" THEN VisualizeResult(two.exc, label, size)
    ELSE show_params(call_extract_pose_parameters(two.value[2]), two.value[1],
                     label, size, update_zoom)

\* visualize_poses from the result of chain_poses on
show_chain(chain, label, size, update_zoom) ==
    IF chain.exc # "none" THEN VisualizeResult(chain.exc, label, size)
    ELSE show_unpacked(unpack_two(chain.value), label, size, update_zoom)

visualize_poses(self_poses, label, size, update_zoom) ==
    show_chain(chain_poses(self_poses), label, size, update_zoom)

\* update_pose_list: the list is rebuilt from self.poses
render_list(self_poses) == [k \in 1..Len(self_poses) |-> ItemText(self_poses[k])]

\* the loop of update_poses_from_list: every item's text parsed back
RECURSIVE parse_items(_, _, _)
parse_items(items, i, new_poses) ==
    IF i > Len(items) THEN Ok(new_poses)
    ELSE LET parts == partition(items[i])
             pose == parse_pose_string(parts[1] \o parts[2])
             inverted == Contains(parts[3], InvertedMark)
         IN  IF pose.exc # "none" THEN Raise("Exception")
             ELSE parse_items(items, i + 1, Append(new_poses, <<pose.value, inverted>>))

\* del self.poses[row] (row counted from 0)
delete_at(list, row) == SubSeq(list, 1, row) \o SubSeq(list, row + 2, Len(list))

\* the list after the item at row i is dropped at row j
move_item(items, i, j) ==
    LET rest == delete_at(items, i)
    IN  SubSeq(rest, 1, j) \o <<items[i + 1]>> \o SubSeq(rest, j + 1, Len(rest))

\* the most entries the list holds, and the most handlers run
MaxPoses == 4
MaxCalls == 3

\* self.poses of __init__, the angles moved to the grid (-80 to -90, -10 to 0)
InitialPoses ==
    << <<Milli(<<-350500, 2954420, 2720940, 0, 0, -90000>>), FALSE>>,
       <<Milli(<<101000, 0, 2200000, 90000, 0, -90000>>), FALSE>>,
       <<Milli(<<3000000, 0, 451500, 0, 90000, 0>>), FALSE>> >>

\* a pose text from its six tokens
PoseText(tokens) ==
    PatternLiterals[1] \o tokens[1] \o PatternLiterals[2] \o tokens[2]
    \o PatternLiterals[3] \o tokens[3] \o PatternLiterals[4] \o tokens[4]
    \o PatternLiterals[5] \o tokens[5] \o PatternLiterals[6] \o tokens[6]
    \o <<"}">>

\* {X 1.234, Y -7, Z .5, A 180, B 0.0, C 90}
TextThreeDecimals ==
    PoseText(<< <<"1", ".", "2", "3", "4">>, <<"-", "7">>, <<".", "5">>,
                <<"1", "8", "0">>, <<"0", ".", "0">>, <<"9", "0">> >>)
\* {X 3000.00, Y 0.00, Z 451.50, A 0.00, B 90.00, C 0.00} (Inverted)
TextInverted == ItemText(<<InitialPoses[3][1], TRUE>>)
\* the same without its opening brace
TextNoBrace == Tail(TextInverted)
\* {X 1.2.3, Y -7, Z .5, A 180, B 0.0, C 90}: the pattern matches, float fails
TextBadNumber ==
    PoseText(<< <<"1", ".", "2", ".", "3">>, <<"-", "7">>, <<".", "5">>,
                <<"1", "8", "0">>, <<"0", ".", "0">>, <<"9", "0">> >>)

InputTexts == {TextThreeDecimals, TextInverted, TextNoBrace, TextBadNumber, <<>>}

Last(op, parse_error, raised) ==
    [op |-> op, parse_error |-> parse_error, raised |-> raised]

\* __init__: self.poses is set and initUI ends in update_pose_list, whose
\* visualize_poses raises with the three poses
Init ==
    /\ poses = InitialPoses
    /\ pose_list = render_list(InitialPoses)
    /\ result_label = <<>>
    /\ last_scene_size = Unset
    /\ last = Last("init", FALSE,
                   visualize_poses(InitialPoses, <<>>, Unset, TRUE).raised)
    /\ calls = 0
    /\ chained_poses = Unset
    /\ scene_size = Unset
    /\ extents = Unset
    /\ extracted = Unset
    /\ camera = Unset

\* what a handler leaves once visualize_poses has run: self.poses, the
\* list's items, the label and the scene size; an exception the handler
\* catches does not leave it
Shown(op, new_poses, items, shown, caught) ==
    /\ poses' = new_poses
    /\ pose_list' = items
    /\ result_label' = shown.result_label
    /\ last_scene_size' = shown.last_scene_size
    /\ last' = Last(op, FALSE,
                    IF shown.raised \in caught THEN "none" ELSE shown.raised)

\* the handlers' common tail: the list rebuilt, then visualize_poses
UpdatePoseList(op, new_poses, caught) ==
    Shown(op, new_poses, render_list(new_poses),
          visualize_poses(new_poses, result_label, last_scene_size, TRUE), caught)

\* add_pose: the text parsed, the entry appended, the list updated; a
\* ValueError of any of these is caught and printed
add_pose_entries(self_poses, pose, inverted) == Append(self_poses, <<pose, inverted>>)

\* a faulty variant: an entry appended before the text is parsed
AddPoseAppendFirst(pose_str, inverted) ==
    /\ Len(poses) < MaxPoses
    /\ LET pose == parse_pose_string(pose_str)
       IN  IF pose.exc # "none"
           THEN /\ poses' = Append(poses, <<InitialPoses[1][1], inverted>>)
                /\ last' = Last("add_pose", TRUE, "none")
                /\ UNCHANGED <<pose_list, result_label, last_scene_size>>
           ELSE UpdatePoseList("add_pose",
                               add_pose_entries(poses, pose.value, inverted),
                               {"ValueError"})
    /\ UNCHANGED coreVars

AddPose(pose_str, inverted) ==
    /\ Len(poses) < MaxPoses
    /\ LET pose == parse_pose_string(pose_str)
       IN  IF pose.exc # "none"
           THEN /\ last' = Last("add_pose", TRUE, "none")
                /\ UNCHANGED <<poses, pose_list, result_label, last_scene_size>>
           ELSE UpdatePoseList("add_pose",
                               add_pose_entries(poses, pose.value, inverted),
                               {"ValueError"})
    /\ UNCHANGED coreVars

\* remove_pose: the current row deleted, when there is one
RemovePose(current_row) ==
    /\ IF current_row >= 0
       THEN UpdatePoseList("remove_pose", delete_at(poses, current_row), {})
       ELSE /\ last' = Last("remove_pose", FALSE, "none")
            /\ UNCHANGED <<poses, pose_list, result_label, last_scene_size>>
    /\ UNCHANGED coreVars

\* toggle_invert_pose: the selected row's flag flipped, when a row is selected
toggled(self_poses, row) ==
    [self_poses EXCEPT ![row + 1] = <<self_poses[row + 1][1], ~self_poses[row + 1][2]>>]

ToggleInvertPose(row) ==
    /\ IF row >= 0
       THEN UpdatePoseList("toggle_invert_pose", toggled(poses, row), {})
       ELSE /\ last' = Last("toggle_invert_pose", FALSE, "none")
            /\ UNCHANGED <<poses, pose_list, result_label, last_scene_size>>
    /\ UNCHANGED coreVars

\* update_poses_from_list: self.poses rebuilt from the items' texts, then
\* visualize_poses; an item that does not parse raises before self.poses
\* is assigned
Reparsed(op, items, pending_poses, new_poses, update_zoom, caught) ==
    IF new_poses.exc # "none"
    THEN /\ poses' = pending_poses
         /\ pose_list' = items
         /\ last' = Last(op, TRUE,
                         IF new_poses.exc \in caught THEN "none"
                         ELSE new_poses.exc)
         /\ UNCHANGED <<result_label, last_scene_size>>
    ELSE Shown(op, new_poses.value, items,
               visualize_poses(new_poses.value, result_label,
                               last_scene_size, update_zoom), caught)

UpdatePosesFromList(op, items, pending_poses, update_zoom, caught) ==
    Reparsed(op, items, pending_poses, parse_items(items, 1, <<>>),
             update_zoom, caught)

\* edit_pose: the dialog's text, when accepted and not empty, is parsed; then
\* the entry is replaced, the item's text set and the poses are read back
\* from the list; every exception is caught and shown in a message box
edited(self_poses, row, new_pose, inverted) ==
    [self_poses EXCEPT ![row + 1] = <<new_pose, inverted>>]

EditPose(current_row, accepted, new_text) ==
    /\ current_row >= 0
    /\ IF accepted /\ new_text # <<>>
       THEN LET parts == partition(new_text)
                new_pose == parse_pose_string(parts[1] \o parts[2])
                inverted == Contains(parts[3], InvertedMark)
            IN  IF new_pose.exc # "none"
                THEN /\ last' = Last("edit_pose", TRUE, "none")
                     /\ UNCHANGED <<poses, pose_list, result_label, last_scene_size>>
                ELSE UpdatePosesFromList(
                         "edit_pose",
                         [pose_list EXCEPT ![current_row + 1] = new_text],
                         edited(poses, current_row, new_pose.value, inverted),
                         FALSE, {"ValueError", "TypeError", "Exception"})
       ELSE /\ last' = Last("edit_pose", FALSE, "none")
            /\ UNCHANGED <<poses, pose_list, result_label, last_scene_size>>
    /\ UNCHANGED coreVars

\* dropEvent: the list widget moves the item, then update_poses_from_list
DropEvent(i, j) ==
    /\ i # j
    /\ UpdatePosesFromList("dropEvent", move_item(pose_list, i, j), poses, TRUE, {})
    /\ UNCHANGED coreVars

\* the Visualize Poses button
VisualizePoses ==
    /\ Shown("visualize_poses", poses, pose_list,
             visualize_poses(poses, result_label, last_scene_size, TRUE), {})
    /\ UNCHANGED coreVars

Rows == 0..(Len(pose_list) - 1)

\* one handler runs, while the bound on the calls allows
Handler ==
    \/ \E pose_str \in InputTexts, inverted \in BOOLEAN : AddPose(pose_str, inverted)
    \/ \E row \in Rows \cup {-1} : RemovePose(row)
    \/ \E row \in Rows \cup {-1} : ToggleInvertPose(row)
    \/ \E row \in Rows, new_text \in InputTexts : EditPose(row, TRUE, new_text)
    \/ \E row \in Rows : EditPose(row, FALSE, <<>>)
    \/ \E i \in Rows, j \in Rows : DropEvent(i, j)
    \/ VisualizePoses

Next ==
    /\ calls < MaxCalls
    /\ calls' = calls + 1
    /\ Handler

Spec == Init /\ [][Next]_vars

----------------------------------------------------------------------------
(* Properties of the library, checked under SpecCore *)

AllTuples(entries) == \A k \in 1..Len(entries) : ~isinstance_str(entries[k][1])

\* toTransform(pose), inverted when the entry's flag is set
IndividualTransform(entry) ==
    LET T == create_transformation_matrix(entry[1][1], entry[1][2], entry[1][3],
                                          entry[1][4], entry[1][5], entry[1][6])
    IN  IF entry[2] THEN inv(T) ELSE T

\* Identity multiplied on the right by the transforms of entries 1..i
RECURSIVE LeftProduct(_, _)
LeftProduct(entries, i) ==
    IF i = 0 THEN eye(4)
    ELSE MatMul(LeftProduct(entries, i - 1), IndividualTransform(entries[i]))

\* C1: chain_poses returns one ChainedPose per entry, in order, and the i-th
\* cumulative transform is Identity times the individual transforms of the
\* entries up to i, left to right; the empty list gives the empty chain.
C1_ChainIsLeftProduct ==
    (chained_poses # Unset /\ AllTuples(poses)) =>
        /\ chained_poses.exc = "none"
        /\ Len(chained_poses.value) = Len(poses)
        /\ \A i \in 1..Len(poses) :
              /\ chained_poses.value[i][1] = LeftProduct(poses, i)
              /\ chained_poses.value[i][2] = poses[i][2]

\* a chain of three entries with mixed flags whose second transform
\* depends on the order of the product
C1_Witness ==
    /\ chained_poses.exc = "none"
    /\ Len(poses) = 3
    /\ poses[1][2] /\ ~poses[2][2]
    /\ chained_poses.value[2][1]
         # MatMul(IndividualTransform(poses[2]), IndividualTransform(poses[1]))
    /\ chained_poses.value[3][1] # chained_poses.value[2][1]

IsInversePair(entries) ==
    /\ Len(entries) = 2
    /\ AllTuples(entries)
    /\ entries[1][1] = entries[2][1]
    /\ ~entries[1][2]
    /\ entries[2][2]

\* C2: chaining (p, not inverted) and then (p, inverted) ends at the identity.
C2_InverseComposesToIdentity ==
    (chained_poses # Unset /\ IsInversePair(poses)) =>
        /\ chained_poses.exc = "none"
        /\ chained_poses.value[2][1] = eye(4)

\* such a pair for a pose that rotates about two axes and translates
C2_Witness ==
    /\ IsInversePair(poses)
    /\ chained_poses.exc = "none"
    /\ poses[1][1][4] # 0 /\ poses[1][1][5] # 0 /\ poses[1][1][1] # 0
    /\ chained_poses.value[1][1] # eye(4)

IsSinglePose(entries) ==
    /\ Len(entries) = 1
    /\ AllTuples(entries)
    /\ ~entries[1][2]

Recreate(p) == create_transformation_matrix(p[1], p[2], p[3], p[4], p[5], p[6])

\* C3: at b = +90 or b = -90 degrees the extraction of create(p) gives c = 0
\* and an a for which create of the extracted pose is create(p) again.
C3_SingularRoundTrip ==
    (/\ extracted # Unset
     /\ IsSinglePose(poses)
     /\ poses[1][1][5] \in {QuarterTurn, -QuarterTurn}) =>
        /\ extracted.value[1][6] = 0
        /\ Recreate(extracted.value[1]) = Recreate(poses[1][1])

\* C4 as stated: whenever b is not +90 or -90 degrees, whatever the range of
\* the angles, the extraction of create(p) is p in all six parameters.
C4_RoundTripAnyAngle ==
    (/\ extracted # Unset
     /\ IsSinglePose(poses)
     /\ poses[1][1][5] \notin {QuarterTurn, -QuarterTurn}) =>
        extracted.value[1] = poses[1][1]

InPrincipalRange(p) ==
    /\ -2 * QuarterTurn < p[4] /\ p[4] <= 2 * QuarterTurn
    /\ -QuarterTurn < p[5] /\ p[5] < QuarterTurn
    /\ -2 * QuarterTurn < p[6] /\ p[6] <= 2 * QuarterTurn

\* C4 amended: when b lies strictly between -90 and +90 degrees and a and c
\* lie in (-180, 180], the extraction of create(p) is p in all six parameters.
C4_RoundTripPrincipalRange ==
    (/\ extracted # Unset
     /\ IsSinglePose(poses)
     /\ InPrincipalRange(poses[1][1])) =>
        extracted.value[1] = poses[1][1]

\* a pose in the principal range with a = 180 and c = -90 has been extracted
C4_Witness ==
    /\ extracted # Unset
    /\ IsSinglePose(poses)
    /\ InPrincipalRange(poses[1][1])
    /\ poses[1][1][4] = 2 * QuarterTurn
    /\ poses[1][1][6] = -QuarterTurn
    /\ poses[1][1][1] # 0

\* C6: extents or scene size asked of an empty chain end in an empty-chain
\* outcome of their own (EmptyChainError or an empty result), not in a
\* generic exception.
C6_EmptyChainDistinguished ==
    (chained_poses = Ok(<<>>)) =>
        /\ extents.exc \in {"unset", "EmptyChainError", "empty"}
        /\ scene_size.exc \in {"unset", "EmptyChainError", "empty"}

Translation(chained, k) == [i \in 1..3 |-> At(chained[k][1], i - 1, 3)]

\* C9: for a non-empty chain the extents are the componentwise minimum and
\* maximum of the cumulative translations: on each axis min <= max, every
\* translation lies between them and both are attained.
C9_ExtentsAreMinMax ==
    (extents # Unset /\ chained_poses.value # <<>>) =>
        /\ extents.exc = "none"
        /\ \A i \in 1..3 :
              LET lo == extents.value[1][i]
                  hi == extents.value[2][i]
                  n == Len(chained_poses.value)
              IN  /\ lo <= hi
                  /\ \A k \in 1..n :
                        /\ lo <= Translation(chained_poses.value, k)[i]
                        /\ Translation(chained_poses.value, k)[i] <= hi
                  /\ \E k \in 1..n : Translation(chained_poses.value, k)[i] = lo
                  /\ \E k \in 1..n : Translation(chained_poses.value, k)[i] = hi

\* extents of three transforms that differ on every axis, the minimum not
\* at the first transform
C9_Witness ==
    /\ extents.exc = "none"
    /\ Len(chained_poses.value) = 3
    /\ \A i \in 1..3 : extents.value[1][i] < extents.value[2][i]
    /\ \E i \in 1..3 : Translation(chained_poses.value, 1)[i] # extents.value[1][i]

Span(lo, hi) == MaxOf({hi[i] - lo[i] : i \in 1..3})

\* C10: for extents with max >= min and max # min the focal point is the
\* midpoint, the camera is the focal point plus twice the largest span on
\* every axis, and on some axis the camera is strictly farther from the
\* focal point than every corner of the box.
C10_CameraPlacement ==
    (camera # Unset /\ extents.value[1] # extents.value[2]) =>
        LET lo == extents.value[1]
            hi == extents.value[2]
            camera_position == camera.value[1]
            focal_point == camera.value[2]
        IN  /\ \A i \in 1..3 : 2 * focal_point[i] = lo[i] + hi[i]
            /\ \A i \in 1..3 :
                  camera_position[i] = focal_point[i] + 2 * Span(lo, hi)
            /\ \E i \in 1..3 :
                  \A corner \in {lo[i], hi[i]} :
                      Abs(camera_position[i] - focal_point[i])
                          > Abs(corner - focal_point[i])

\* a camera placed for a box whose three spans differ
C10_Witness ==
    /\ camera # Unset
    /\ LET d == [i \in 1..3 |-> extents.value[2][i] - extents.value[1][i]]
       IN  d[1] # d[2] /\ d[2] # d[3] /\ d[1] # d[3] /\ d[1] > 0

----------------------------------------------------------------------------
(* Properties of the window, checked under Spec *)

\* the cumulative transform of the last entry of the chain of self_poses
LastCumulative(self_poses) == chain_poses(self_poses).value[Len(self_poses)][1]

\* C5: after a recompute pass over a non-empty self.poses the resulting
\* pose shown in the label is extract_pose_parameters of the last cumulative
\* transform, and with no poses the label says so (it is not left empty).
C5_ResultingPoseExposed ==
    IF Len(poses) >= 1
    THEN result_label = FormatPose(extract_pose_parameters(LastCumulative(poses)))
    ELSE result_label # <<>>

\* C7: a handler in which parse_pose_string rejects the text with a format
\* error leaves self.poses exactly as it was.
C7_ParseErrorLeavesPoses == [][last'.parse_error => poses' = poses]_vars

\* edit_pose rejects a text after other handlers have changed the poses
C7_Witness ==
    /\ last.parse_error
    /\ last.op = "edit_pose"
    /\ poses # InitialPoses
    /\ Len(poses) = MaxPoses

IsTwoDecimals(pose) == \A i \in 1..6 : pose[i] % Hundredth = 0

\* C8: every pose of self.poses whose six values are rounded to two
\* decimals is what parse_pose_string returns for its "%.2f" rendering.
C8_FormatParseRoundTrip ==
    \A k \in 1..Len(poses) :
        IsTwoDecimals(poses[k][1]) =>
            parse_pose_string(FormatPose(poses[k][1])) = Ok(poses[k][1])

\* the poses were read back from the items after an edit; one of them has
\* a negative value and a value with hundredths, and the edited entry, with three
\* decimals, is not what its rendering gives back
C8_Witness ==
    /\ last.op = "edit_pose"
    /\ ~last.parse_error
    /\ \E k \in 1..Len(poses) :
          /\ IsTwoDecimals(poses[k][1])
          /\ \E i \in 1..6 : poses[k][1][i] < 0
          /\ \E i \in 1..6 : poses[k][1][i] % (10 * Hundredth) # 0
    /\ \E k \in 1..Len(poses) :
          /\ ~IsTwoDecimals(poses[k][1])
          /\ parse_pose_string(FormatPose(poses[k][1])) # Ok(poses[k][1])

\* the lists that self_poses becomes when one entry is moved from a row
\* to another row
Reordered(self_poses) ==
    {move_item(self_poses, i, j) : i \in 0..(Len(self_poses) - 1),
                                   j \in 0..(Len(self_poses) - 1)}

\* C11: a drop on a list that shows self.poses (as add_pose,
\* toggle_invert_pose and earlier drops leave it) only permutes self.poses:
\* the entries after it are the entries before it with one of them moved
\* from row i to row j, all six numbers and the invert flag of every entry
\* as they were.
C11_ReorderOnlyPermutes ==
    [][(pose_list = render_list(poses) /\ last'.op = "dropEvent")
          => poses' \in Reordered(poses)]_vars

====
